---- MODULE Spec2Model ----
(***************************************************************************)
(* A model of jb (JopBear): the JoplinFile document builder of             *)
(* src/src/joplin_file.rs and the migration run of src/src/main.rs and     *)
(* src/src/joplin_file_io.rs.                                              *)
(*                                                                         *)
(* A Rust &str / String is a sequence of one-character strings; a byte     *)
(* offset o of the source is the position o + 1 of the sequence.  The      *)
(* texts of the model are ASCII, so every offset is a character boundary.  *)
(***************************************************************************)
EXTENDS Integers, Sequences, FiniteSets, TLC

VARIABLES
    relative_path,    \* build's first argument (a path, as text)
    content,          \* build's second argument (the raw text)
    result,           \* what the last call of build returned
    pc,               \* position of the caller / of main
    docs,             \* the source directory: the documents find_files discovers
    has_resources,    \* whether <source_dir>/_resources is a directory
    idx,              \* loop index of build_joplin_files / write_joplin_files
    joplin_files,     \* the Vec<JoplinFile> build_joplin_files collects
    target_files,     \* the files created under the target directory
    resources_copied, \* whether copy_resources copied _resources
    exit_msg,         \* what main printed when it ended
    target_os         \* the platform the program was compiled for

vars == <<relative_path, content, result, pc, docs, has_resources, idx,
          joplin_files, target_files, resources_copied, exit_msg, target_os>>

(***************************************************************************)
(* Option and Result                                                       *)
(***************************************************************************)
None == [some |-> FALSE]
Some(v) == [some |-> TRUE, val |-> v]
Ok(v) == [ok |-> TRUE, val |-> v]
Err(e) == [ok |-> FALSE, err |-> e]

(***************************************************************************)
(* The str methods the builder uses                                        *)
(***************************************************************************)
\* char::is_whitespace, restricted to ASCII
IsWhitespace(c) == c \in {" ", "\t", "\n", "\r", "\f"}

\* s[a..b) and s[a..] in byte offsets
Slice(s, a, b) == SubSeq(s, a + 1, b)
SliceFrom(s, a) == SubSeq(s, a + 1, Len(s))

\* str::get(a..b): None when the range is out of bounds
StrGet(s, a, b) == IF a <= b /\ b <= Len(s) THEN Some(Slice(s, a, b)) ELSE None

\* str::get(a..)
StrGetFrom(s, a) == IF a <= Len(s) THEN Some(SliceFrom(s, a)) ELSE None

\* pat occurs in s at byte offset i
MatchesAt(s, i, pat) ==
    /\ i + Len(pat) <= Len(s)
    /\ \A k \in 1..Len(pat) : s[i + k] = pat[k]

\* str::find(pat): the byte offset of the first occurrence
StrFind(s, pat) ==
    LET hits == {i \in 0..(Len(s) - Len(pat)) : MatchesAt(s, i, pat)}
    IN  IF hits = {} THEN None
        ELSE Some(CHOOSE i \in hits : \A j \in hits : i <= j)

\* str::starts_with / str::ends_with
StartsWith(s, pat) == MatchesAt(s, 0, pat)
EndsWith(s, pat) == Len(pat) <= Len(s) /\ MatchesAt(s, Len(s) - Len(pat), pat)

\* str::trim_start, str::trim_end, str::trim
TrimStart(s) ==
    IF \A i \in 1..Len(s) : IsWhitespace(s[i]) THEN <<>>
    ELSE SubSeq(s, CHOOSE i \in 1..Len(s) :
                       ~IsWhitespace(s[i]) /\ \A j \in 1..(i - 1) : IsWhitespace(s[j]),
                Len(s))

TrimEnd(s) ==
    IF \A i \in 1..Len(s) : IsWhitespace(s[i]) THEN <<>>
    ELSE SubSeq(s, 1, CHOOSE i \in 1..Len(s) :
                          ~IsWhitespace(s[i]) /\ \A j \in (i + 1)..Len(s) : IsWhitespace(s[j]))

\* a trim that removes trailing whitespace only
TrimTrailingOnly(s) == TrimEnd(s)

Trim(s) == TrimStart(TrimEnd(s))

\* str::lines: split at "\n", a "\r" before it dropped, final line ending optional
StripCR(l) == IF Len(l) > 0 /\ l[Len(l)] = "\r" THEN SubSeq(l, 1, Len(l) - 1) ELSE l

Lines(s) ==
    LET nls == {i \in 1..Len(s) : s[i] = "\n"}
        \* the position of the k-th "\n"; 0 before the first, Len(s) + 1 after the last
        nl(k) == IF k = 0 THEN 0
                 ELSE IF k > Cardinality(nls) THEN Len(s) + 1
                 ELSE CHOOSE i \in nls : Cardinality({j \in nls : j <= i}) = k
        count == IF s = <<>> \/ s[Len(s)] = "\n"
                 THEN Cardinality(nls) ELSE Cardinality(nls) + 1
    IN  [k \in 1..count |->
            IF k <= Cardinality(nls)
            THEN StripCR(SubSeq(s, nl(k - 1) + 1, nl(k) - 1))
            ELSE SubSeq(s, nl(k - 1) + 1, Len(s))]

\* str::replace(" ", "-")
ReplaceSpaces(s) == [i \in 1..Len(s) |-> IF s[i] = " " THEN "-" ELSE s[i]]

\* str::trim_end_matches(pat): pat removed from the end as often as it matches
RECURSIVE TrimEndMatches(_, _)
TrimEndMatches(s, pat) ==
    IF EndsWith(s, pat) THEN TrimEndMatches(SubSeq(s, 1, Len(s) - Len(pat)), pat)
    ELSE s

(***************************************************************************)
(* Program constants                                                       *)
(***************************************************************************)
MARKER == <<"-", "-", "-", "\n">>
MARKER_LEN == Len(MARKER)
TITLE_KEY == <<"t", "i", "t", "l", "e", ":">>
CREATED_KEY == <<"c", "r", "e", "a", "t", "e", "d", ":">>
UPDATED_KEY == <<"u", "p", "d", "a", "t", "e", "d", ":">>
MD_SUFFIX == <<".", "m", "d">>

ErrStart == "Could not find front matter start marker"
ErrAfterStart == "Could not find front matter after start marker"
ErrEnd == "Could not find end of front matter"
ErrSlice == "Could not find front matter"
ErrTitle == "Could not find title"
ErrCreated == "Could not find created"
ErrCreatedParse == "Could not parse created date"
ErrUpdated == "Could not find updated"
ErrUpdatedParse == "Could not parse updated date"

(***************************************************************************)
(* chrono: DateTime::parse_from_rfc3339(..).to_utc() and timestamp().      *)
(* A DateTime<Utc> is [days, sod, nanos]: whole days since 1970-01-01,     *)
(* second of that day, nanoseconds.  Its Unix timestamp is                 *)
(* days * 86400 + sod, kept as the pair because it does not fit TLC's      *)
(* 32-bit integers.                                                        *)
(***************************************************************************)
Digits == <<"0", "1", "2", "3", "4", "5", "6", "7", "8", "9">>
IsDigit(c) == \E i \in 1..10 : Digits[i] = c
DigitOf(c) == (CHOOSE i \in 1..10 : Digits[i] = c) - 1

\* the n characters of s at byte offset off are digits
AllDigits(s, off, n) == off + n <= Len(s) /\ \A k \in 1..n : IsDigit(s[off + k])

RECURSIVE Number(_, _, _)
\* the value of the n digits at byte offset off
Number(s, off, n) ==
    IF n = 0 THEN 0 ELSE Number(s, off, n - 1) * 10 + DigitOf(s[off + n])

IsLeapYear(y) == (y % 4 = 0 /\ y % 100 # 0) \/ y % 400 = 0

DaysInMonth(y, m) ==
    IF m = 2 THEN (IF IsLeapYear(y) THEN 29 ELSE 28)
    ELSE IF m \in {4, 6, 9, 11} THEN 30 ELSE 31

\* days from 1970-01-01 to the proleptic Gregorian date y-m-d
DaysFromCivil(y, m, d) ==
    LET yy == IF m <= 2 THEN y - 1 ELSE y
        era == yy \div 400
        yoe == yy - era * 400
        mp == IF m > 2 THEN m - 3 ELSE m + 9
        doy == (153 * mp + 2) \div 5 + d - 1
        doe == yoe * 365 + yoe \div 4 - yoe \div 100 + doy
    IN  era * 146097 + doe - 719468

\* the number of digits that follow byte offset off
RECURSIVE DigitRun(_, _)
DigitRun(s, off) ==
    IF off < Len(s) /\ IsDigit(s[off + 1]) THEN 1 + DigitRun(s, off + 1) ELSE 0

RECURSIVE Pow10(_)
Pow10(n) == IF n = 0 THEN 1 ELSE 10 * Pow10(n - 1)

\* an offset scanner that takes a missing offset for UTC
TimezoneOffsetOptional(s, p) ==
    IF p >= Len(s) THEN Some([secs |-> 0, next |-> p])
    ELSE IF s[p + 1] \in {"Z", "z"} THEN Some([secs |-> 0, next |-> p + 1])
    ELSE IF /\ s[p + 1] \in {"+", "-"}
            /\ AllDigits(s, p + 1, 2)
            /\ p + 4 <= Len(s) /\ s[p + 4] = ":"
            /\ AllDigits(s, p + 4, 2)
            /\ Number(s, p + 4, 2) <= 59
            /\ Number(s, p + 1, 2) <= 23
         THEN LET mag == Number(s, p + 1, 2) * 3600 + Number(s, p + 4, 2) * 60
              IN  Some([secs |-> IF s[p + 1] = "-" THEN 0 - mag ELSE mag, next |-> p + 6])
         ELSE None

\* scan::timezone_offset with 'Z' allowed and a colon required: the offset in
\* seconds east of UTC and the byte offset after it
TimezoneOffset(s, p) ==
    IF p >= Len(s) THEN None
    ELSE IF s[p + 1] \in {"Z", "z"} THEN Some([secs |-> 0, next |-> p + 1])
    ELSE IF /\ s[p + 1] \in {"+", "-"}
            /\ AllDigits(s, p + 1, 2)
            /\ p + 4 <= Len(s) /\ s[p + 4] = ":"
            /\ AllDigits(s, p + 4, 2)
            /\ Number(s, p + 4, 2) <= 59
            /\ Number(s, p + 1, 2) <= 23
         THEN LET mag == Number(s, p + 1, 2) * 3600 + Number(s, p + 4, 2) * 60
              IN  Some([secs |-> IF s[p + 1] = "-" THEN 0 - mag ELSE mag, next |-> p + 6])
         ELSE None

\* DateTime::parse_from_rfc3339(s).map(|r| r.to_utc()): Ok(instant) or Err
ParseRfc3339(s) ==
    IF ~ /\ Len(s) >= 19
         /\ AllDigits(s, 0, 4) /\ s[5] = "-"
         /\ AllDigits(s, 5, 2) /\ s[8] = "-"
         /\ AllDigits(s, 8, 2) /\ s[11] \in {"T", "t", " "}
         /\ AllDigits(s, 11, 2) /\ s[14] = ":"
         /\ AllDigits(s, 14, 2) /\ s[17] = ":"
         /\ AllDigits(s, 17, 2)
    THEN Err("invalid")
    ELSE
    LET year == Number(s, 0, 4)
        month == Number(s, 5, 2)
        day == Number(s, 8, 2)
        hour == Number(s, 11, 2)
        minute == Number(s, 14, 2)
        second == Number(s, 17, 2)
        hasFrac == Len(s) >= 20 /\ s[20] = "."
        fracLen == IF hasFrac THEN DigitRun(s, 20) ELSE 0
        used == IF fracLen > 9 THEN 9 ELSE fracLen
        frac == IF hasFrac THEN Number(s, 20, used) * Pow10(9 - used) ELSE 0
        tzAt == IF hasFrac THEN 20 + fracLen ELSE 19
        tz == TimezoneOffset(s, tzAt)
    IN  IF \/ hasFrac /\ fracLen = 0
           \/ ~tz.some
           \/ tz.val.next # Len(s)
           \/ month < 1 \/ month > 12
           \/ day < 1 \/ day > DaysInMonth(year, month)
           \/ hour > 23 \/ minute > 59 \/ second > 60
        THEN Err("invalid")
        ELSE LET local == hour * 3600 + minute * 60 + (IF second = 60 THEN 59 ELSE second)
                 t == local - tz.val.secs
             IN  Ok([days |-> DaysFromCivil(year, month, day) + t \div 86400,
                     sod |-> t % 86400,
                     nanos |-> IF second = 60 THEN frac + 1000000000 ELSE frac])

(***************************************************************************)
(* std::path: Path::components / Path::iter of a Unix path given as text   *)
(***************************************************************************)
RECURSIVE SplitOn(_, _)
\* str::split(sep) for a one-character separator
SplitOn(s, sep) ==
    LET at == StrFind(s, <<sep>>)
    IN  IF ~at.some THEN <<s>>
        ELSE <<Slice(s, 0, at.val)>> \o SplitOn(SliceFrom(s, at.val + 1), sep)

\* the components of a path: a leading "/" is the root component, empty
\* segments and "." segments are skipped, except a leading "." of a path
\* that has no root
Components(path) ==
    LET parts == SplitOn(path, "/")
        rooted == Len(path) > 0 /\ path[1] = "/"
        keep(i) == /\ parts[i] # <<>>
                   /\ (parts[i] = <<".">> => (i = 1 /\ ~rooted))
        kept == SelectSeq([i \in 1..Len(parts) |-> [i |-> i, seg |-> parts[i]]],
                          LAMBDA e : keep(e.i))
    IN  (IF rooted THEN << <<"/">> >> ELSE <<>>) \o [i \in 1..Len(kept) |-> kept[i].seg]

(***************************************************************************)
(* JoplinFile (src/src/joplin_file.rs)                                     *)
(***************************************************************************)
\* a locator that accepts the marker only at the very start of the text
find_front_matter_start_at_zero(text) ==
    IF StartsWith(text, MARKER) THEN Ok(0) ELSE Err(ErrStart)

find_front_matter_start(text) ==
    LET at == StrFind(text, MARKER)
    IN  IF at.some THEN Ok(at.val) ELSE Err(ErrStart)

\* an end locator that searches from the start marker itself, not after it
find_front_matter_end_from_start(fm_start_pos, text) ==
    LET content_from_start == StrGetFrom(text, fm_start_pos)
    IN  IF ~content_from_start.some THEN Err(ErrAfterStart)
        ELSE LET end_relative == StrFind(content_from_start.val, MARKER)
             IN  IF ~end_relative.some THEN Err(ErrEnd)
                 ELSE LET end_pos == fm_start_pos + end_relative.val + MARKER_LEN
                      IN  IF end_pos > Len(text) THEN Err(ErrEnd) ELSE Ok(end_pos)

\* an end locator that takes the start marker to be one byte longer than it is
find_front_matter_end_past_marker(fm_start_pos, text) ==
    LET after_start_pos == fm_start_pos + MARKER_LEN + 1
        content_after_start == StrGetFrom(text, after_start_pos)
    IN  IF ~content_after_start.some THEN Err(ErrAfterStart)
        ELSE LET end_relative == StrFind(content_after_start.val, MARKER)
             IN  IF ~end_relative.some THEN Err(ErrEnd)
                 ELSE LET end_pos == after_start_pos + end_relative.val + MARKER_LEN
                      IN  IF end_pos > Len(text) THEN Err(ErrEnd) ELSE Ok(end_pos)

find_front_matter_end(fm_start_pos, text) ==
    LET after_start_pos == fm_start_pos + MARKER_LEN
        content_after_start == StrGetFrom(text, after_start_pos)
    IN  IF ~content_after_start.some THEN Err(ErrAfterStart)
        ELSE LET end_relative == StrFind(content_after_start.val, MARKER)
             IN  IF ~end_relative.some THEN Err(ErrEnd)
                 ELSE LET end_pos == after_start_pos + end_relative.val + MARKER_LEN
                      IN  IF end_pos > Len(text) THEN Err(ErrEnd) ELSE Ok(end_pos)

\* a scan that passes over a key line whose value is blank
RECURSIVE FindMapKeySkipBlank(_, _, _)
FindMapKeySkipBlank(lines, key, i) ==
    IF i > Len(lines) THEN None
    ELSE LET trimmed == Trim(lines[i])
         IN  IF StartsWith(trimmed, key) /\ TrimStart(SliceFrom(trimmed, Len(key))) # <<>>
             THEN Some(TrimStart(SliceFrom(trimmed, Len(key))))
             ELSE FindMapKeySkipBlank(lines, key, i + 1)

\* a scan in which a later key line overrides an earlier one
RECURSIVE FindMapKeyLast(_, _, _)
FindMapKeyLast(lines, key, i) ==
    IF i > Len(lines) THEN None
    ELSE LET trimmed == Trim(lines[i])
             later == FindMapKeyLast(lines, key, i + 1)
         IN  IF later.some THEN later
             ELSE IF StartsWith(trimmed, key)
             THEN Some(TrimStart(SliceFrom(trimmed, Len(key))))
             ELSE None

\* lines().find_map(..): the value of the first line that starts with key
RECURSIVE FindMapKey(_, _, _)
FindMapKey(lines, key, i) ==
    IF i > Len(lines) THEN None
    ELSE LET trimmed == Trim(lines[i])
         IN  IF StartsWith(trimmed, key)
             THEN Some(TrimStart(SliceFrom(trimmed, Len(key))))
             ELSE FindMapKey(lines, key, i + 1)

find_front_matter_value(front_matter, key) ==
    LET value == FindMapKey(Lines(front_matter), key, 1)
    IN  IF value.some /\ value.val # <<>> THEN value ELSE None

find_title(front_matter) ==
    LET title == find_front_matter_value(front_matter, TITLE_KEY)
    IN  IF title.some THEN Ok(title.val) ELSE Err(ErrTitle)

find_created(front_matter) ==
    LET created == find_front_matter_value(front_matter, CREATED_KEY)
    IN  IF ~created.some THEN Err(ErrCreated)
        ELSE LET parsed == ParseRfc3339(created.val)
             IN  IF parsed.ok THEN parsed ELSE Err(ErrCreatedParse)

find_updated(front_matter) ==
    LET updated == find_front_matter_value(front_matter, UPDATED_KEY)
    IN  IF ~updated.some THEN Err(ErrUpdated)
        ELSE LET parsed == ParseRfc3339(updated.val)
             IN  IF parsed.ok THEN parsed ELSE Err(ErrUpdatedParse)

RECURSIVE PushComponents(_, _, _, _)
\* the for_each of build_tags from component i on, appended to tags
PushComponents(comps, tag_count, i, tags) ==
    IF i >= tag_count THEN tags
    ELSE LET component == ReplaceSpaces(comps[i + 1])
         IN  PushComponents(comps, tag_count, i + 1,
                 IF i < tag_count - 1
                 THEN tags \o component \o <<"/">>
                 ELSE tags \o TrimEndMatches(component, MD_SUFFIX))

build_tags(path) ==
    LET comps == Components(path)
        tag_count == Len(comps)
    IN  IF tag_count = 0 THEN None
        ELSE Some(PushComponents(comps, tag_count, 0, <<"#">>))

\* a builder that extracts created before title
build_created_first(path, text) ==
    LET start == find_front_matter_start(text)
    IN  IF ~start.ok THEN start ELSE
    LET front_matter_start_pos == start.val
        end == find_front_matter_end(front_matter_start_pos, text)
    IN  IF ~end.ok THEN end ELSE
    LET front_matter_end_pos == end.val
        front_matter == StrGet(text, front_matter_start_pos, front_matter_end_pos)
    IN  IF ~front_matter.some THEN Err(ErrSlice) ELSE
    LET body == Trim(SliceFrom(text, front_matter_end_pos))
        created == find_created(front_matter.val)
    IN  IF ~created.ok THEN created ELSE
    LET title == find_title(front_matter.val)
    IN  IF ~title.ok THEN title ELSE
    LET updated == find_updated(front_matter.val)
    IN  IF ~updated.ok THEN updated ELSE
        Ok([title |-> title.val,
            created |-> created.val,
            updated |-> updated.val,
            front_matter |-> front_matter.val,
            front_matter_start_pos |-> front_matter_start_pos,
            front_matter_end_pos |-> front_matter_end_pos,
            body |-> body,
            tags |-> build_tags(path),
            relative_path |-> path])

build(path, text) ==
    LET start == find_front_matter_start(text)
    IN  IF ~start.ok THEN start ELSE
    LET front_matter_start_pos == start.val
        end == find_front_matter_end(front_matter_start_pos, text)
    IN  IF ~end.ok THEN end ELSE
    LET front_matter_end_pos == end.val
        front_matter == StrGet(text, front_matter_start_pos, front_matter_end_pos)
    IN  IF ~front_matter.some THEN Err(ErrSlice) ELSE
    LET body == Trim(SliceFrom(text, front_matter_end_pos))
        title == find_title(front_matter.val)
    IN  IF ~title.ok THEN title ELSE
    LET created == find_created(front_matter.val)
    IN  IF ~created.ok THEN created ELSE
    LET updated == find_updated(front_matter.val)
    IN  IF ~updated.ok THEN updated ELSE
        Ok([title |-> title.val,
            created |-> created.val,
            updated |-> updated.val,
            front_matter |-> front_matter.val,
            front_matter_start_pos |-> front_matter_start_pos,
            front_matter_end_pos |-> front_matter_end_pos,
            body |-> body,
            tags |-> build_tags(path),
            relative_path |-> path])

(***************************************************************************)
(* std::time and the write-back (src/src/joplin_file_io.rs)                *)
(***************************************************************************)
\* DateTime::timestamp() as u64.  The i64 timestamp days * 86400 + sod is
\* reinterpreted modulo 2^64; the result is kept as [wraps, days, sod], which
\* stands for wraps * 2^64 + days * 86400 + sod (wraps = 1 exactly when the
\* timestamp is negative).
TimestampAsU64(dt) ==
    [wraps |-> IF dt.days < 0 THEN 1 ELSE 0, days |-> dt.days, sod |-> dt.sod]

\* SystemTime::UNIX_EPOCH + Duration::from_secs(secs): the sum in seconds, or
\* None where the + panics because it exceeds i64::MAX seconds.  A timestamp
\* chrono can hold is below 2^44 in magnitude, so the sum exceeds 2^63 - 1
\* exactly when wraps = 1.
EpochPlusSecs(secs) ==
    IF secs.wraps = 1 THEN None ELSE Some([days |-> secs.days, sod |-> secs.sod])

\* the text write_joplin_files writes for a document
FileContent(joplin_file) ==
    joplin_file.body \o <<"\n">> \o
    (IF joplin_file.tags.some THEN <<"\n">> \o joplin_file.tags.val \o <<"\n">> ELSE <<>>)

\* cfg(any(target_os = "macos", target_os = "windows"))
SetsCreated == target_os \in {"macos", "windows"}

(***************************************************************************)
(* A direct call of JoplinFile::build, as the unit tests make it           *)
(***************************************************************************)
RunIdle == UNCHANGED <<docs, has_resources, idx, joplin_files, target_files,
                       resources_copied, exit_msg, target_os>>

CallBuild ==
    /\ pc = "call"
    /\ result' = build(relative_path, content)
    /\ pc' = "returned"
    /\ UNCHANGED <<relative_path, content>>
    /\ RunIdle

(***************************************************************************)
(* main: build_joplin_files, write_joplin_files, copy_resources            *)
(***************************************************************************)
\* build_joplin_files, loop body: read_to_string fails
ReadFail ==
    /\ pc = "build" /\ idx <= Len(docs)
    /\ ~docs[idx].readable
    /\ pc' = "exit1"
    /\ exit_msg' = <<"Error building Joplin files: ", "Error reading file: ">>
    /\ UNCHANGED <<relative_path, content, result, docs, has_resources, idx,
                   joplin_files, target_files, resources_copied, target_os>>

\* build_joplin_files, loop body: the document is built and pushed
BuildNext ==
    /\ pc = "build" /\ idx <= Len(docs)
    /\ docs[idx].readable
    /\ LET joplin_file == build(docs[idx].path, docs[idx].text)
       IN  /\ joplin_file.ok
           /\ relative_path' = docs[idx].path
           /\ content' = docs[idx].text
           /\ result' = joplin_file
           /\ joplin_files' = Append(joplin_files, joplin_file.val)
    /\ idx' = idx + 1
    /\ UNCHANGED <<pc, docs, has_resources, target_files, resources_copied,
                   exit_msg, target_os>>

\* a loop body that skips a document build fails on and goes on
BuildFailSkip ==
    /\ pc = "build" /\ idx <= Len(docs)
    /\ docs[idx].readable
    /\ LET joplin_file == build(docs[idx].path, docs[idx].text)
       IN  /\ ~joplin_file.ok
           /\ relative_path' = docs[idx].path
           /\ content' = docs[idx].text
           /\ result' = joplin_file
    /\ idx' = idx + 1
    /\ UNCHANGED <<pc, docs, has_resources, joplin_files, target_files,
                   resources_copied, exit_msg, target_os>>

\* build_joplin_files, loop body: build fails, main prints the error and exits
BuildFail ==
    /\ pc = "build" /\ idx <= Len(docs)
    /\ docs[idx].readable
    /\ LET joplin_file == build(docs[idx].path, docs[idx].text)
       IN  /\ ~joplin_file.ok
           /\ relative_path' = docs[idx].path
           /\ content' = docs[idx].text
           /\ result' = joplin_file
           /\ exit_msg' = <<"Error building Joplin files: ",
                            "Error building JoplinFile: ", joplin_file.err>>
    /\ pc' = "exit1"
    /\ UNCHANGED <<docs, has_resources, idx, joplin_files, target_files,
                   resources_copied, target_os>>

\* build_joplin_files returns Ok(joplin_files); main goes on to write
BuildDone ==
    /\ pc = "build" /\ idx > Len(docs)
    /\ pc' = "write"
    /\ idx' = 1
    /\ UNCHANGED <<relative_path, content, result, docs, has_resources,
                   joplin_files, target_files, resources_copied, exit_msg, target_os>>

\* write_joplin_files, loop body: the file is created, written and its times set
WriteNext ==
    /\ pc = "write" /\ idx <= Len(joplin_files)
    /\ LET joplin_file == joplin_files[idx]
           created_time == EpochPlusSecs(TimestampAsU64(joplin_file.created))
           modified_time == EpochPlusSecs(TimestampAsU64(joplin_file.updated))
       IN  /\ created_time.some /\ modified_time.some
           /\ target_files' = Append(target_files,
                  [path |-> joplin_file.relative_path,
                   text |-> FileContent(joplin_file),
                   accessed |-> modified_time,
                   modified |-> modified_time,
                   created |-> IF SetsCreated THEN created_time ELSE None])
    /\ idx' = idx + 1
    /\ UNCHANGED <<relative_path, content, result, pc, docs, has_resources,
                   joplin_files, resources_copied, exit_msg, target_os>>

\* write_joplin_files, loop body: the file is created and written, then the
\* addition UNIX_EPOCH + Duration panics and the process aborts
WritePanic ==
    /\ pc = "write" /\ idx <= Len(joplin_files)
    /\ LET joplin_file == joplin_files[idx]
           created_time == EpochPlusSecs(TimestampAsU64(joplin_file.created))
           modified_time == EpochPlusSecs(TimestampAsU64(joplin_file.updated))
       IN  /\ ~created_time.some \/ ~modified_time.some
           /\ target_files' = Append(target_files,
                  [path |-> joplin_file.relative_path,
                   text |-> FileContent(joplin_file),
                   accessed |-> None,
                   modified |-> None,
                   created |-> None])
    /\ pc' = "panic"
    /\ exit_msg' = <<"overflow when adding duration to instant">>
    /\ UNCHANGED <<relative_path, content, result, docs, has_resources, idx,
                   joplin_files, resources_copied, target_os>>

\* write_joplin_files returns Ok(()); main goes on to copy the resources
WriteDone ==
    /\ pc = "write" /\ idx > Len(joplin_files)
    /\ pc' = "copy"
    /\ UNCHANGED <<relative_path, content, result, docs, has_resources, idx,
                   joplin_files, target_files, resources_copied, exit_msg, target_os>>

\* copy_resources copies <source_dir>/_resources; main prints Done
CopyResources ==
    /\ pc = "copy"
    /\ has_resources
    /\ resources_copied' = TRUE
    /\ pc' = "done"
    /\ exit_msg' = <<"Done\n">>
    /\ UNCHANGED <<relative_path, content, result, docs, has_resources, idx,
                   joplin_files, target_files, target_os>>

\* copy_resources: <source_dir>/_resources is missing or no directory
CopyFail ==
    /\ pc = "copy"
    /\ ~has_resources
    /\ pc' = "exit1"
    /\ exit_msg' = <<"Error copying resources: ", "The source path does not exist">>
    /\ UNCHANGED <<relative_path, content, result, docs, has_resources, idx,
                   joplin_files, target_files, resources_copied, target_os>>

(***************************************************************************)
(* Inputs.  A text is the concatenation of a few pieces, so that the       *)
(* markers, keys and dates of a document fit in a bounded text.            *)
(***************************************************************************)
SeqsUpTo(S, n) == UNION {[1..k -> S] : k \in 0..n}

RECURSIVE Flatten(_)
Flatten(pieces) ==
    IF pieces = <<>> THEN <<>> ELSE Head(pieces) \o Flatten(Tail(pieces))

\* the front-matter lines of the unit test tests::test_build
GoodFields ==
    <<"t", "i", "t", "l", "e", ":", " ", "T", "e", "s", "t", "\n", "c", 
      "r", "e", "a", "t", "e", "d", ":", " ", "2", "0", "2", "4", "-", "0", 
      "3", "-", "0", "7", "T", "2", "3", ":", "2", "2", ":", "2", "6", "Z", 
      "\n", "u", "p", "d", "a", "t", "e", "d", ":", " ", "2", "0", "2", 
      "4", "-", "0", "4", "-", "0", "7", "T", "0", "8", ":", "3", "4", ":", 
      "5", "2", "Z", "\n">>

FooMd ==
    <<"f", "o", "o", ".", "m", "d">>

\* the variables of main, at rest while build is called directly
RunAtRest ==
    /\ docs = <<>>
    /\ has_resources = FALSE
    /\ idx = 1
    /\ joplin_files = <<>>
    /\ target_files = <<>>
    /\ resources_copied = FALSE
    /\ exit_msg = <<>>
    /\ target_os = "linux"

\* texts around the marker: dashes, newlines, other text and the fields
MaxChunks == 5
MarkerChunks == {MARKER, <<"-">>, <<"\n">>, <<"x">>, GoodFields}

InitMarker ==
    /\ content \in {Flatten(c) : c \in SeqsUpTo(MarkerChunks, MaxChunks)}
    /\ relative_path = FooMd
    /\ result = None
    /\ pc = "call"
    /\ RunAtRest

SpecMarker == InitMarker /\ [][CallBuild]_vars

\* front-matter lines between the two markers: a key on several lines, with
\* blank and non-blank values
MaxLines == 4
FieldLines ==
    {<<"t","i","t","l","e",":"," ","A","\n">>,
     <<"t","i","t","l","e",":"," "," ","\n">>,
     <<" "," ","t","i","t","l","e",":","B"," ","\n">>,
     <<"c","r","e","a","t","e","d",":"," ","2","0","2","4","-","0","3","-","0","7","T","2","3",":","2","2",":","2","6","Z","\n">>,
     <<"c","r","e","a","t","e","d",":"," ","2","0","0","1","-","0","2","-","0","3","T","0","4",":","0","5",":","0","6","Z","\n">>,
     <<"u","p","d","a","t","e","d",":"," ","2","0","2","4","-","0","4","-","0","7","T","0","8",":","3","4",":","5","2","Z","\n">>}

InitFields ==
    /\ content \in {MARKER \o Flatten(l) \o MARKER : l \in SeqsUpTo(FieldLines, MaxLines)}
    /\ relative_path = FooMd
    /\ result = None
    /\ pc = "call"
    /\ RunAtRest

SpecFields == InitFields /\ [][CallBuild]_vars

\* documents whose markers, title, created and updated are each present,
\* absent or malformed
DateValues ==
    {<<>>,
     <<"2","0","2","4","-","0","3","-","0","7","T","2","3",":","2","2",":","2","6","Z">>,
     <<"2","0","2","4","-","0","3","-","0","7","T","2","3",":","2","2",":","2","6","+","1","1",":","0","0">>,
     <<"2","0","2","4","-","0","3","-","0","7","T","2","3",":","2","2",":","2","6","-","0","5",":","3","0">>,
     <<"2","0","2","4","-","0","3","-","0","7","T","2","3",":","2","2",":","2","6">>,
     <<"2","0","2","4","-","0","3","-","0","7">>,
     <<"1","9","6","9","-","1","2","-","3","1","T","2","3",":","5","9",":","5","9","Z">>,
     <<"2","0","2","4","-","0","3","-","0","7"," ","2","3",":","2","2",":","2","6","z">>,
     <<"2","0","2","4","-","0","3","-","0","7","T","2","3",":","2","2",":","2","6","+","1","1","0","0">>}

TitleLines == {<<>>, TITLE_KEY \o <<" ", " ", "\n">>, TITLE_KEY \o <<" ", "T", "\n">>}
CreatedLines == {<<>>} \cup {CREATED_KEY \o <<" ">> \o v \o <<"\n">> : v \in DateValues}
UpdatedLines == {<<>>} \cup {UPDATED_KEY \o <<" ">> \o v \o <<"\n">> : v \in DateValues}

InitDoc ==
    /\ content \in {open \o t \o c \o u \o close \o <<"b", "\n">> :
                      open \in {<<>>, MARKER}, t \in TitleLines, c \in CreatedLines,
                      u \in UpdatedLines, close \in {<<>>, MARKER}}
    /\ relative_path = FooMd
    /\ result = None
    /\ pc = "call"
    /\ RunAtRest

SpecDoc == InitDoc /\ [][CallBuild]_vars

\* documents with text before the opening marker and after the closing one:
\* each marker present or absent, the fields complete or with one step
\* failing, and a tail of whitespace, text with whitespace inside, and dashes
MaxTailChunks == 3
TailChunks == {<<" ">>, <<"\n">>, <<"x", "\t", "y">>, <<"-", "-", "-">>}

TitleLine == TITLE_KEY \o <<" ", "T", "\n">>
CreatedLine == CREATED_KEY \o <<" ", "2","0","2","4","-","0","3","-","0","7","T","2","3",":","2","2",":","2","6","Z", "\n">>
CreatedDateOnlyLine == CREATED_KEY \o <<" ", "2","0","2","4","-","0","3","-","0","7", "\n">>
UpdatedLine == UPDATED_KEY \o <<" ", "2","0","2","4","-","0","4","-","0","7","T","0","8",":","3","4",":","5","2","Z", "\n">>
UpdatedDateOnlyLine == UPDATED_KEY \o <<" ", "2","0","2","4","-","0","4","-","0","7", "\n">>

TailFields ==
    {<<>>,
     TitleLine \o CreatedLine \o UpdatedLine,
     CreatedLine \o UpdatedLine,
     TitleLine \o UpdatedLine,
     TitleLine \o CreatedDateOnlyLine \o UpdatedLine,
     TitleLine \o CreatedLine,
     TitleLine \o CreatedLine \o UpdatedDateOnlyLine}

InitTail ==
    /\ content \in {pre \o open \o f \o close \o Flatten(t) :
                      pre \in {<<>>, <<" ", "x", "\n">>}, open \in {<<>>, MARKER},
                      f \in TailFields, close \in {<<>>, MARKER},
                      t \in SeqsUpTo(TailChunks, MaxTailChunks)}
    /\ relative_path = FooMd
    /\ result = None
    /\ pc = "call"
    /\ RunAtRest

SpecTail == InitTail /\ [][CallBuild]_vars

\* relative paths: segments with spaces, dots and .md suffixes
MaxPathChunks == 5
PathChunks == {<<"a">>, <<" ">>, <<".">>, <<"/">>, MD_SUFFIX}

InitTags ==
    /\ relative_path \in {Flatten(c) : c \in SeqsUpTo(PathChunks, MaxPathChunks)}
    /\ content = MARKER \o GoodFields \o MARKER
    /\ result = None
    /\ pc = "call"
    /\ RunAtRest

SpecTags == InitTags /\ [][CallBuild]_vars

\* source directories: up to MaxDocs documents, each well-formed, dated
\* before 1970, without a title, or unreadable
MaxDocs == 3
OldUpdatedFields ==
    <<"t", "i", "t", "l", "e", ":", " ", "O", "l", "d", "\n", "c", "r", 
      "e", "a", "t", "e", "d", ":", " ", "1", "9", "7", "0", "-", "0", "1", 
      "-", "0", "1", "T", "0", "0", ":", "0", "0", ":", "0", "0", "Z", 
      "\n", "u", "p", "d", "a", "t", "e", "d", ":", " ", "1", "9", "6", 
      "9", "-", "1", "2", "-", "3", "1", "T", "2", "3", ":", "5", "9", ":", 
      "5", "9", "Z", "\n">>

OldCreatedFields ==
    <<"t", "i", "t", "l", "e", ":", " ", "O", "l", "d", "\n", "c", "r", 
      "e", "a", "t", "e", "d", ":", " ", "1", "9", "6", "9", "-", "1", "2", 
      "-", "3", "1", "T", "2", "3", ":", "5", "9", ":", "5", "9", "Z", 
      "\n", "u", "p", "d", "a", "t", "e", "d", ":", " ", "2", "0", "2", 
      "4", "-", "0", "4", "-", "0", "7", "T", "0", "8", ":", "3", "4", ":", 
      "5", "2", "Z", "\n">>

NoTitleFields ==
    <<"c", "r", "e", "a", "t", "e", "d", ":", " ", "2", "0", "2", "4", "-", 
      "0", "3", "-", "0", "7", "T", "2", "3", ":", "2", "2", ":", "2", "6", 
      "Z", "\n", "u", "p", "d", "a", "t", "e", "d", ":", " ", "2", "0", 
      "2", "4", "-", "0", "4", "-", "0", "7", "T", "0", "8", ":", "3", "4", 
      ":", "5", "2", "Z", "\n">>

DocTexts ==
    {MARKER \o f \o MARKER \o <<"b", "\n">> :
        f \in {GoodFields, OldUpdatedFields, OldCreatedFields, NoTitleFields}}

\* the path of the i-th discovered document, relative to the source directory
DocPath(i) == <<"d", " ", "r", "/", "n", Digits[i + 1]>> \o MD_SUFFIX

DocKinds == [text : DocTexts, readable : {TRUE}] \cup [text : {<<>>}, readable : {FALSE}]

InitRun ==
    /\ docs \in {[i \in 1..Len(k) |-> [path |-> DocPath(i), text |-> k[i].text,
                                        readable |-> k[i].readable]] :
                    k \in SeqsUpTo(DocKinds, MaxDocs)}
    /\ has_resources \in BOOLEAN
    /\ target_os \in {"linux", "macos"}
    /\ idx = 1
    /\ joplin_files = <<>>
    /\ target_files = <<>>
    /\ resources_copied = FALSE
    /\ exit_msg = <<>>
    /\ relative_path = <<>>
    /\ content = <<>>
    /\ result = None
    /\ pc = "build"

Next ==
    \/ ReadFail
    \/ BuildNext
    \/ BuildFail
    \/ BuildDone
    \/ WriteNext
    \/ WritePanic
    \/ WriteDone
    \/ CopyResources
    \/ CopyFail

Spec == InitRun /\ [][Next]_vars

(***************************************************************************)
(* Properties of the marker locator                                        *)
(***************************************************************************)
\* the byte offsets at which the marker "---\n" occurs in text
Occurrences(text) == {i \in 0..(Len(text) - MARKER_LEN) : MatchesAt(text, i, MARKER)}

\* the offsets of the lines that consist of exactly three dashes and a newline
DelimiterLines(text) == {i \in Occurrences(text) : i = 0 \/ text[i] = "\n"}

SetMin(S) == CHOOSE i \in S : \A j \in S : i <= j

\* C1: when the text holds two non-overlapping occurrences of the marker
\* "---\n", the front matter is located: the start offset is that of the first
\* occurrence, the end offset is just after the newline of the next occurrence
\* that does not overlap it, 0 <= start < end <= len(text), build fails with
\* none of the locator's errors, and a returned front_matter is text[start..end).
C1_FrontMatterLocated ==
    LET occ == Occurrences(content)
    IN  (\E i, j \in occ : i + MARKER_LEN <= j) =>
        LET first == SetMin(occ)
            second == SetMin({j \in occ : first + MARKER_LEN <= j})
            end == second + MARKER_LEN
        IN  /\ find_front_matter_start(content) = Ok(first)
            /\ find_front_matter_end(first, content) = Ok(end)
            /\ 0 <= first /\ first < end /\ end <= Len(content)
            /\ pc = "returned" =>
                  IF result.ok
                  THEN /\ result.val.front_matter_start_pos = first
                       /\ result.val.front_matter_end_pos = end
                       /\ result.val.front_matter = SubSeq(content, first + 1, end)
                  ELSE result.err \notin {ErrStart, ErrAfterStart, ErrEnd, ErrSlice}

\* C1 witness: build returned a document whose front matter starts after the
\* start of the text and ends before its end
C1_Witness ==
    /\ pc = "returned" /\ result.ok
    /\ result.val.front_matter_start_pos > 0
    /\ result.val.front_matter_end_pos < Len(content)
    /\ Cardinality(Occurrences(content)) >= 2

\* C2 as stated: a text without a delimiter line (a line of exactly three
\* dashes and a newline) fails with the missing-start-marker error, a text
\* with exactly one fails with the missing-end-marker error.
C2_DelimiterLineErrors ==
    pc = "returned" =>
        /\ DelimiterLines(content) = {} => result = Err(ErrStart)
        /\ Cardinality(DelimiterLines(content)) = 1 => result = Err(ErrEnd)

\* C2 amended: a text in which the marker "---\n" occurs nowhere (as a line
\* of its own or as the end of a longer line) fails with the
\* missing-start-marker error; a text in which it occurs exactly once fails
\* with the missing-end-marker error.
C2_OccurrenceErrors ==
    pc = "returned" =>
        /\ Occurrences(content) = {} => result = Err(ErrStart)
        /\ Cardinality(Occurrences(content)) = 1 => result = Err(ErrEnd)

\* C2 witness: the marker occurs once, at the end of a longer line, and build
\* reports the missing end marker
C2_Witness ==
    /\ pc = "returned"
    /\ Cardinality(Occurrences(content)) = 1
    /\ DelimiterLines(content) = {}
    /\ result = Err(ErrEnd)

(***************************************************************************)
(* Properties of field extraction and of the order of build's steps        *)
(***************************************************************************)
\* the front matter of text, where both markers are found
FrontMatterOf(text) ==
    LET start == find_front_matter_start(text)
        end == IF start.ok THEN find_front_matter_end(start.val, text) ELSE start
    IN  IF start.ok /\ end.ok THEN Some(Slice(text, start.val, end.val)) ELSE None

\* what follows key on a line that, trimmed, starts with key; trimmed
ValueOf(line, key) == Trim(SliceFrom(Trim(line), Len(key)))

\* the indexes of the lines that, trimmed, start with key
KeyLines(lines, key) == {i \in 1..Len(lines) : StartsWith(Trim(lines[i]), key)}

\* the value on the first line that has the key: None when no line has it or
\* that value is blank
FirstKeyLineValue(fm, key) ==
    LET lines == Lines(fm)
        with == KeyLines(lines, key)
    IN  IF with = {} THEN None
        ELSE LET v == ValueOf(lines[SetMin(with)], key)
             IN  IF v = <<>> THEN None ELSE Some(v)

\* the value on the first line that has the key and a non-blank value
FirstNonBlankValue(fm, key) ==
    LET lines == Lines(fm)
        full == {i \in KeyLines(lines, key) : ValueOf(lines[i], key) # <<>>}
    IN  IF full = {} THEN None ELSE Some(ValueOf(lines[SetMin(full)], key))

Keys == {TITLE_KEY, CREATED_KEY, UPDATED_KEY}

\* C3: build returns the error of the first step that fails, in the order
\* start marker, end marker, title, created, updated, and then no document;
\* it returns a document only when no step fails.
C3_FirstFailingStepWins ==
    pc = "returned" =>
        LET start == find_front_matter_start(content)
        IN  IF ~start.ok THEN result = Err(ErrStart)
            ELSE LET end == find_front_matter_end(start.val, content)
                 IN  IF ~end.ok THEN result = Err(ErrEnd)
                     ELSE LET fm == Slice(content, start.val, end.val)
                              steps == <<find_title(fm), find_created(fm), find_updated(fm)>>
                              failing == {k \in 1..3 : ~steps[k].ok}
                          IN  IF failing = {} THEN result.ok
                              ELSE /\ result = Err(steps[SetMin(failing)].err)
                                   /\ DOMAIN result = {"ok", "err"}

\* C3 witness: title is missing, created is malformed and updated is missing,
\* and build returned the missing-title error
C3_Witness ==
    /\ pc = "returned"
    /\ FrontMatterOf(content).some
    /\ find_title(FrontMatterOf(content).val) = Err(ErrTitle)
    /\ find_created(FrontMatterOf(content).val) = Err(ErrCreatedParse)
    /\ find_updated(FrontMatterOf(content).val) = Err(ErrUpdated)
    /\ result = Err(ErrTitle)

\* C4 as stated: in every front matter build reads, the extractor returns the
\* value of the first line that has the key and a non-blank value, so a blank
\* key line is as good as absent.
C4_BlankLineAsAbsent ==
    LET fm == FrontMatterOf(content)
    IN  (pc = "returned" /\ fm.some) =>
            \A key \in Keys :
                find_front_matter_value(fm.val, key) = FirstNonBlankValue(fm.val, key)

\* C4 amended: in every front matter build reads, the extractor returns the
\* value of the first line that starts with the key (after trimming) when
\* that value is non-blank, and nothing otherwise: a first key line with a blank value makes the key count as
\* absent, and no later line with the same key supplies the value.
C4_FirstKeyLineDecides ==
    LET fm == FrontMatterOf(content)
    IN  (pc = "returned" /\ fm.some) =>
            \A key \in Keys :
                find_front_matter_value(fm.val, key) = FirstKeyLineValue(fm.val, key)

\* C4 witness: the first title line is blank, a later one is not, and build
\* reports the title missing
C4_Witness ==
    /\ pc = "returned"
    /\ FrontMatterOf(content).some
    /\ LET lines == Lines(FrontMatterOf(content).val)
           with == KeyLines(lines, TITLE_KEY)
       IN  /\ with # {}
           /\ ValueOf(lines[SetMin(with)], TITLE_KEY) = <<>>
           /\ \E i \in with : ValueOf(lines[i], TITLE_KEY) # <<>>
    /\ result = Err(ErrTitle)

\* what build returns when each field is read from the first line that has
\* its key, and from no other line
BuildFromFirstLines(fm) ==
    LET t == FirstKeyLineValue(fm, TITLE_KEY)
        c == FirstKeyLineValue(fm, CREATED_KEY)
        u == FirstKeyLineValue(fm, UPDATED_KEY)
    IN  IF ~t.some THEN Err(ErrTitle)
        ELSE IF ~c.some THEN Err(ErrCreated)
        ELSE IF ~ParseRfc3339(c.val).ok THEN Err(ErrCreatedParse)
        ELSE IF ~u.some THEN Err(ErrUpdated)
        ELSE IF ~ParseRfc3339(u.val).ok THEN Err(ErrUpdatedParse)
        ELSE Ok([title |-> t.val, created |-> ParseRfc3339(c.val).val,
                 updated |-> ParseRfc3339(u.val).val])

\* C5: field extraction is first-match-wins: title, created and updated of
\* the document build returns, or the error it returns, are those of the
\* earliest line that has the key; later lines with the same key change nothing.
C5_FirstMatchWins ==
    LET fm == FrontMatterOf(content)
    IN  (pc = "returned" /\ fm.some) =>
        LET first == BuildFromFirstLines(fm.val)
        IN  IF first.ok
            THEN /\ result.ok
                 /\ result.val.title = first.val.title
                 /\ result.val.created = first.val.created
                 /\ result.val.updated = first.val.updated
            ELSE result = first

\* C5 witness: the title appears on two lines with different values, and
\* build returned a document
C5_Witness ==
    /\ pc = "returned" /\ result.ok
    /\ LET lines == Lines(result.val.front_matter)
       IN  \E i, j \in KeyLines(lines, TITLE_KEY) :
               /\ i < j
               /\ ValueOf(lines[i], TITLE_KEY) # <<>>
               /\ ValueOf(lines[j], TITLE_KEY) # <<>>
               /\ ValueOf(lines[i], TITLE_KEY) # ValueOf(lines[j], TITLE_KEY)

(***************************************************************************)
(* Properties of the dates                                                 *)
(***************************************************************************)
DigitsAt(v, ps) == \A q \in ps : IsDigit(v[q])

\* a calendar date and nothing else: dddd-dd-dd
IsDateOnly(v) ==
    /\ Len(v) = 10
    /\ DigitsAt(v, {1, 2, 3, 4, 6, 7, 9, 10})
    /\ v[5] = "-" /\ v[8] = "-"

\* a date and a time of day without 'Z' or offset: dddd-dd-ddTdd:dd:dd
IsDateTimeNoOffset(v) ==
    /\ Len(v) = 19
    /\ IsDateOnly(SubSeq(v, 1, 10))
    /\ v[11] = "T"
    /\ DigitsAt(v, {12, 13, 15, 16, 18, 19})
    /\ v[14] = ":" /\ v[17] = ":"

\* values with 'Z' or a numeric offset, and the UTC instant each denotes
ExpectedInstants ==
    {<<<<"2","0","2","4","-","0","3","-","0","7","T","2","3",":","2","2",":","2","6","Z">>,
       [days |-> 19789, sod |-> 84146, nanos |-> 0]>>,
     <<<<"2","0","2","4","-","0","3","-","0","7","T","2","3",":","2","2",":","2","6","+","1","1",":","0","0">>,
       [days |-> 19789, sod |-> 44546, nanos |-> 0]>>,
     <<<<"2","0","2","4","-","0","3","-","0","7","T","2","3",":","2","2",":","2","6","-","0","5",":","3","0">>,
       [days |-> 19790, sod |-> 17546, nanos |-> 0]>>,
     <<<<"1","9","6","9","-","1","2","-","3","1","T","2","3",":","5","9",":","5","9","Z">>,
       [days |-> 0 - 1, sod |-> 86399, nanos |-> 0]>>}

HasExpectedInstant(v) == \E e \in ExpectedInstants : e[1] = v
ExpectedInstant(v) == (CHOOSE e \in ExpectedInstants : e[1] = v)[2]

\* C6: for created and for updated, once the earlier steps have passed, a
\* date-only value or a date-time without 'Z' or offset fails with the
\* invalid-format error of that field, a blank or absent value fails with the
\* missing-field error of that field, and a value with 'Z' or a +hh:mm / -hh:mm
\* offset is accepted as the UTC instant it denotes.
C6_OffsetRequired ==
    LET fm == FrontMatterOf(content)
    IN  (pc = "returned" /\ fm.some /\ FirstKeyLineValue(fm.val, TITLE_KEY).some) =>
        LET c == FirstKeyLineValue(fm.val, CREATED_KEY)
            u == FirstKeyLineValue(fm.val, UPDATED_KEY)
            Rejected(v) == IsDateOnly(v) \/ IsDateTimeNoOffset(v)
        IN  /\ ~c.some => result = Err(ErrCreated)
            /\ (c.some /\ Rejected(c.val)) => result = Err(ErrCreatedParse)
            /\ (c.some /\ HasExpectedInstant(c.val)) =>
                  /\ ~u.some => result = Err(ErrUpdated)
                  /\ (u.some /\ Rejected(u.val)) => result = Err(ErrUpdatedParse)
                  /\ (u.some /\ HasExpectedInstant(u.val)) =>
                        /\ result.ok
                        /\ result.val.created = ExpectedInstant(c.val)
                        /\ result.val.updated = ExpectedInstant(u.val)

\* C6 witness: created carries the offset +11:00 and is accepted, updated is a
\* date-time without offset, and build reports updated as invalid
C6_Witness ==
    /\ pc = "returned"
    /\ FrontMatterOf(content).some
    /\ LET fm == FrontMatterOf(content).val
           c == FirstKeyLineValue(fm, CREATED_KEY)
           u == FirstKeyLineValue(fm, UPDATED_KEY)
       IN  /\ FirstKeyLineValue(fm, TITLE_KEY).some
           /\ c.some /\ HasExpectedInstant(c.val) /\ c.val[20] = "+"
           /\ u.some /\ IsDateTimeNoOffset(u.val)
    /\ result = Err(ErrUpdatedParse)

(***************************************************************************)
(* Properties of the tags                                                  *)
(***************************************************************************)
\* str::strip_suffix(suffix).unwrap_or(s): the suffix removed once
StripSuffixOnce(s, suffix) ==
    IF EndsWith(s, suffix) THEN SubSeq(s, 1, Len(s) - Len(suffix)) ELSE s

\* the reference tag function: '#', every non-final segment with spaces as
\* hyphens and a '/', the final segment with spaces as hyphens and one
\* trailing ".md" removed
ReferenceTags(path) ==
    LET segs == Components(path)
        n == Len(segs)
    IN  IF n = 0 THEN None
        ELSE Some(<<"#">> \o
                  Flatten([i \in 1..n |->
                      IF i < n THEN ReplaceSpaces(segs[i]) \o <<"/">>
                      ELSE StripSuffixOnce(ReplaceSpaces(segs[n]), MD_SUFFIX)]))

\* C7: the tags of the document build returns are those of the reference tag
\* function for every relative path: absent exactly when the path has no
\* segment, and with ".md" removed from the final segment only once.
C7_TagsMatchReference ==
    pc = "returned" =>
        /\ result.ok
        /\ result.val.tags = ReferenceTags(relative_path)
        /\ result.val.tags = None <=> Components(relative_path) = <<>>

(***************************************************************************)
(* Properties of the migration run                                         *)
(***************************************************************************)
\* the positions of the discovered documents on which build fails
FailingDocs == {i \in 1..Len(docs) : docs[i].readable /\ ~build(docs[i].path, docs[i].text).ok}

\* C8: when build fails on any discovered document, whatever its position,
\* the run writes no target file and copies no resource, never passes the
\* failing document, and stops in the error state with the build error.
C8_BuildErrorIsFatal ==
    FailingDocs # {} =>
        /\ target_files = <<>>
        /\ ~resources_copied
        /\ pc \in {"build", "exit1"}
        /\ \A i \in FailingDocs : idx <= i
        /\ pc = "build" => idx <= Len(docs)
        /\ pc = "exit1" => exit_msg[1] = "Error building Joplin files: "

\* C8 witness: the third of three documents fails to build after two were
\* built, and the run has stopped without output
C8_Witness ==
    /\ pc = "exit1"
    /\ FailingDocs = {3}
    /\ Len(joplin_files) = 2
    /\ target_files = <<>>
    /\ ~resources_copied
    /\ exit_msg = <<"Error building Joplin files: ", "Error building JoplinFile: ", ErrTitle>>

\* C9: every file write_joplin_files has written carries the document's
\* updated instant as modification and access time (and, where supported, its
\* created instant as creation time), also for instants before 1970.
C9_TimesSetFromDocument ==
    \A i \in 1..Len(target_files) :
        /\ target_files[i].modified
              = Some([days |-> joplin_files[i].updated.days, sod |-> joplin_files[i].updated.sod])
        /\ target_files[i].accessed = target_files[i].modified
        /\ SetsCreated =>
              target_files[i].created
                 = Some([days |-> joplin_files[i].created.days, sod |-> joplin_files[i].created.sod])

(***************************************************************************)
(* Properties of the body                                                  *)
(***************************************************************************)
SetMax(S) == CHOOSE i \in S : \A j \in S : j <= i

\* the positions of s that hold something other than whitespace
NonWhitespace(s) == {i \in 1..Len(s) : ~IsWhitespace(s[i])}

\* s from its first to its last character that is no whitespace
Trimmed(s) ==
    IF NonWhitespace(s) = {} THEN <<>>
    ELSE SubSeq(s, SetMin(NonWhitespace(s)), SetMax(NonWhitespace(s)))

\* C11: for every text on which build succeeds, body is the text that follows
\* front_matter_end_pos with leading and trailing whitespace removed: it
\* neither begins nor ends with whitespace, it is empty exactly when only
\* whitespace or nothing follows the closing marker, and it is a piece of the
\* text that lies wholly at or after front_matter_end_pos.
C11_BodyIsTrimmedRest ==
    (pc = "returned" /\ result.ok) =>
        LET end_pos == result.val.front_matter_end_pos
            rest == SliceFrom(content, end_pos)
            body == result.val.body
        IN  /\ FrontMatterOf(content).some
            /\ end_pos = Len(content) - Len(rest)
            /\ result.val.front_matter = Slice(content, result.val.front_matter_start_pos, end_pos)
            /\ body = Trimmed(rest)
            /\ body # <<>> => ~IsWhitespace(body[1]) /\ ~IsWhitespace(body[Len(body)])
            /\ body = <<>> <=> NonWhitespace(rest) = {}
            /\ \E a \in end_pos..Len(content) :
                   /\ a + Len(body) <= Len(content)
                   /\ body = Slice(content, a, a + Len(body))
                   /\ \A i \in (end_pos + 1)..a : IsWhitespace(content[i])
                   /\ \A i \in (a + Len(body) + 1)..Len(content) : IsWhitespace(content[i])

\* C11 witness: text precedes the opening marker, the text after the closing
\* marker begins and ends with whitespace and has whitespace inside, and build
\* returned a body shorter than that text
C11_Witness ==
    /\ pc = "returned" /\ result.ok
    /\ result.val.front_matter_start_pos > 0
    /\ LET rest == SliceFrom(content, result.val.front_matter_end_pos)
           body == result.val.body
       IN  /\ Len(rest) >= 3
           /\ IsWhitespace(rest[1]) /\ IsWhitespace(rest[Len(rest)])
           /\ \E i \in 1..Len(body) : IsWhitespace(body[i])
           /\ Len(body) < Len(rest)

(***************************************************************************)
(* Properties of the defensive error paths                                 *)
(***************************************************************************)
\* the errors build returns for a missing marker or a missing or invalid field
ReachableErrors ==
    {ErrStart, ErrEnd, ErrTitle, ErrCreated, ErrCreatedParse, ErrUpdated, ErrUpdatedParse}

\* C12: once find_front_matter_start has succeeded, the offset after the
\* start marker lies within the text, so find_front_matter_end does not return
\* the after-start-marker error; when a marker follows, the end offset does
\* not exceed the length of the text, so the end locator returns it and fails
\* only when no marker follows; the slice text[start..end) exists; and an
\* error build returns is one of the seven of ReachableErrors.
C12_DefensivePathsUnreachable ==
    LET start == find_front_matter_start(content)
    IN  /\ start.ok =>
              LET after_start_pos == start.val + MARKER_LEN
                  end == find_front_matter_end(start.val, content)
                  end_relative == StrFind(SliceFrom(content, after_start_pos), MARKER)
              IN  /\ after_start_pos <= Len(content)
                  /\ end # Err(ErrAfterStart)
                  /\ end_relative.some =>
                        /\ after_start_pos + end_relative.val + MARKER_LEN <= Len(content)
                        /\ end = Ok(after_start_pos + end_relative.val + MARKER_LEN)
                  /\ ~end_relative.some => end = Err(ErrEnd)
                  /\ end.ok => StrGet(content, start.val, end.val).some
        /\ (pc = "returned" /\ ~result.ok) =>
              /\ result.err \in ReachableErrors
              /\ result.err \notin {ErrAfterStart, ErrSlice}

\* C12 witness: the only marker of the text is its last four characters, so
\* the text after the start marker is empty, and build reports the missing
\* end marker
C12_Witness ==
    /\ pc = "returned"
    /\ find_front_matter_start(content).ok
    /\ find_front_matter_start(content).val > 0
    /\ find_front_matter_start(content).val + MARKER_LEN = Len(content)
    /\ result = Err(ErrEnd)

====
